---- MODULE Spec2Model ----
(***************************************************************************)
(* The three notebooks of the repository, each run top to bottom by one    *)
(* kernel, against the cloud services they call:                           *)
(*   "djl"  - Serve Multiple Fine-Tuned LoRA Adapters with DJL Serving     *)
(*   "vllm" - Serving LoRA-based Llama 2 adapters (vLLM rolling batch)     *)
(*   "fc"   - Function calling on an LLM hosted on SageMaker               *)
(* A behaviour is one run of one notebook.  A statement that calls an SDK  *)
(* takes two steps: Call (the request leaves the kernel, which blocks) and *)
(* the action named after the operation (the response arrives), or Raise   *)
(* (the call raises; a call that raises has changed nothing).  The         *)
(* endpoint is brought up by the service on its own (ServiceSettle).       *)
(* An exception that no except clause catches stops the run.  Statements   *)
(* that only print, pip install or look up an image URI are left out.      *)
(*                                                                         *)
(* The DJL notebook also writes model.py, the entry point its endpoint's   *)
(* model server runs.  Its behaviours are the sequences of handle and      *)
(* register_adapter calls a server makes on one Python process             *)
(* (HandlerSpec); a notebook run leaves that process's state alone.        *)
(***************************************************************************)
EXTENDS Integers, Sequences, FiniteSets, TLC

VARIABLES
    nb,                \* the notebook this run executes
    pc,                \* index of the statement the kernel is at
    py,                \* the kernel's namespace: variable name -> value
    inflight,          \* SDK calls issued and not yet returned
    aborted,           \* an exception propagated: the run has stopped
    local_dirs,        \* adapter directories under lora-multi-adapter/adapters
    tarball,           \* adapter directories packed in model.tar.gz, or NoTar
    s3,                \* objects in the bucket
    models,            \* SageMaker models of the account
    endpoint_configs,  \* SageMaker endpoint configurations
    endpoints,         \* SageMaker endpoints, each with its EndpointStatus
    requests,          \* inference requests sent to the endpoint, in order
    issued,            \* history: operations called so far
    returned,          \* history: operations that returned normally
    raised,            \* history: <<operation, exception type>> of calls that raised
    handled,           \* history: exceptions caught by an except clause
    waited,            \* history: the wait step has finished
    polls,             \* history: describe_endpoint calls issued
    sleeps,            \* history: time.sleep calls made
    firstStatus,       \* history: status returned by the first describe
    sinceDescribe,     \* history: <<sleeps, seconds slept>> since the last describe
    gap,               \* history: sinceDescribe at the latest describe call
    refs,              \* history: <<operation, kind, name>> of the resources calls named
    created,           \* history: <<kind, name>> of the resources created
    model,             \* model.py: the global model
    tokenizer,         \* model.py: the global tokenizer
    loads,             \* history: load_model invocations
    wraps,             \* history: PeftModel.from_pretrained calls that returned
    registered,        \* history: adapter names registered, in order
    evals,             \* history: the evaluate call of the latest handle call, if any
    trace,             \* history: <<entry point, outcome>> of the calls on model.py
    ncalls,            \* history: calls on model.py so far
    called             \* history: the entry point of the latest call on model.py

vars == <<nb, pc, py, inflight, aborted, local_dirs, tarball, s3, models,
          endpoint_configs, endpoints, requests, issued, returned, raised,
          handled, waited, polls, sleeps, firstStatus, sinceDescribe, gap,
          refs, created, model, tokenizer, loads, wraps, registered, evals, trace, ncalls, called>>

\* the state of the model server's Python process running model.py
server == <<model, tokenizer, loads, wraps, registered, evals, trace, ncalls, called>>

\* the state of the notebook run and of the account it runs against
notebook == <<nb, pc, py, inflight, aborted, local_dirs, tarball, s3, models,
              endpoint_configs, endpoints, requests, issued, returned, raised,
              handled, waited, polls, sleeps, firstStatus, sinceDescribe, gap,
              refs, created>>

cloud == <<s3, models, endpoint_configs, endpoints>>
files == <<local_dirs, tarball>>
pollHist == <<polls, sleeps, firstStatus, sinceDescribe, gap>>

-----------------------------------------------------------------------------
(* Bounds *)

\* describe_endpoint answers "Creating" at most this many times in a run
MaxPolls == 3

\* the history counters stop counting here (a run of the notebooks stays below)
CounterCap == MaxPolls + 2

Inc(n) == IF n < CounterCap THEN n + 1 ELSE n

\* timestamps name_from_base may append
Timestamps == {"2024-03-20-17-55-22-611", "2024-03-20-17-55-23-102"}

Notebooks == {"djl", "vllm", "fc"}

ExceptionTypes == {"ValueError", "ClientError"}

NoTar == {"<no model.tar.gz>"}
None == "None"

-----------------------------------------------------------------------------
(* JSON values and json.dumps with its default separators.  Strings are    *)
(* written here with the escapes json.dumps produces.                      *)

JStr(s) == [t |-> "str", v |-> s]
JList(xs) == [t |-> "list", v |-> xs]
JDict(kvs) == [t |-> "dict", v |-> kvs]

RECURSIVE json_dumps(_)
RECURSIVE JoinItems(_, _)
RECURSIVE JoinPairs(_, _)

JoinItems(xs, i) ==
    IF i > Len(xs) THEN ""
    ELSE (IF i > 1 THEN ", " ELSE "") \o json_dumps(xs[i]) \o JoinItems(xs, i + 1)

JoinPairs(kvs, i) ==
    IF i > Len(kvs) THEN ""
    ELSE (IF i > 1 THEN ", " ELSE "")
         \o "\"" \o kvs[i][1] \o "\": " \o json_dumps(kvs[i][2])
         \o JoinPairs(kvs, i + 1)

json_dumps(x) ==
    CASE x.t = "str"  -> "\"" \o x.v \o "\""
      [] x.t = "list" -> "[" \o JoinItems(x.v, 1) \o "]"
      [] x.t = "dict" -> "{" \o JoinPairs(x.v, 1) \o "}"

StrList(ss) == JList([i \in 1..Len(ss) |-> JStr(ss[i])])

-----------------------------------------------------------------------------
(* Values the notebooks define *)

SleepSeconds == 60

name_from_base(base, ts) == base \o "-" \o ts

S3Uri(bucket, prefix, file) == "s3://" \o bucket \o "/" \o prefix \o "/" \o file

DefaultBucket == "sagemaker-us-east-1-622343165275"

FUNCTION_METADATA ==
    JList(<<
      JDict(<< <<"type", JStr("function")>>,
               <<"function", JDict(<<
                  <<"name", JStr("get_current_weather")>>,
                  <<"description", JStr("This function gets the current weather in a given city")>>,
                  <<"parameters", JDict(<<
                     <<"type", JStr("object")>>,
                     <<"properties", JDict(<<
                        <<"city", JDict(<<
                           <<"type", JStr("string")>>,
                           <<"description", JStr("The city, e.g., San Francisco")>> >>)>>,
                        <<"format", JDict(<<
                           <<"type", JStr("string")>>,
                           <<"enum", StrList(<<"celsius", "fahrenheit">>)>>,
                           <<"description", JStr("The temperature unit to use.")>> >>)>> >>)>>,
                     <<"required", StrList(<<"city">>)>> >>)>> >>)>> >>),
      JDict(<< <<"type", JStr("function")>>,
               <<"function", JDict(<<
                  <<"name", JStr("get_clothes")>>,
                  <<"description", JStr("This function provides a suggestion of clothes to wear based on the current weather")>>,
                  <<"parameters", JDict(<<
                     <<"type", JStr("object")>>,
                     <<"properties", JDict(<<
                        <<"temperature", JDict(<<
                           <<"type", JStr("string")>>,
                           <<"description", JStr("The temperature, e.g., 15 C or 59 F")>> >>)>>,
                        <<"condition", JDict(<<
                           <<"type", JStr("string")>>,
                           <<"description", JStr("The weather condition, e.g., 'Cloudy', 'Sunny', 'Rainy'")>> >>)>> >>)>>,
                     <<"required", StrList(<<"temperature", "condition">>)>> >>)>> >>)>> >>)
    >>)

ModelId == "Trelis/Meta-Llama-3-8B-Instruct-function-calling"

ChatMessages ==
    << [role |-> "system", content |-> "You are a helpful assistant."],
       [role |-> "user", content |-> "What is deep learning?"] >>

ChatParameters ==
    [model |-> ModelId, top_p |-> "0.6", temperature |-> "0.9", max_tokens |-> 512]

FunctionCallMessages ==
    << [role |-> "function_metadata", content |-> "FUNCTION_METADATA"],
       [role |-> "function_call",
        content |-> "{\n    \"name\": \"get_current_weather\",\n    \"arguments\": {\n        \"city\": \"London\"\n    }\n}"],
       [role |-> "user", content |-> "What is the current weather in London?"] >>

FunctionCallParameters ==
    [model |-> ModelId, top_p |-> "0.6", temperature |-> "0.9", max_tokens |-> 512,
     stop |-> <<"<|eot_id|>">>]

-----------------------------------------------------------------------------
(* The notebooks' statements, in cell order *)

EnvGeneration ==
    [HUGGINGFACE_HUB_CACHE |-> "/tmp",
     TRANSFORMERS_CACHE |-> "/tmp",
     SERVING_LOAD_MODELS |-> "test::Python=/opt/ml/model",
     OPTION_MODEL_ID |-> "TheBloke/Llama-2-7B-Chat-fp16",
     OPTION_TRUST_REMOTE_CODE |-> "true",
     OPTION_TENSOR_PARALLEL_DEGREE |-> "max",
     OPTION_ROLLING_BATCH |-> "vllm",
     OPTION_MAX_ROLLING_BATCH_SIZE |-> "32",
     OPTION_DTYPE |-> "fp16",
     OPTION_ENABLE_LORA |-> "true",
     OPTION_GPU_MEMORY_UTILIZATION |-> "0.8",
     OPTION_MAX_LORA_RANK |-> "64",
     OPTION_MAX_CPU_LORAS |-> "4"]

HfConfig ==
    [HF_MODEL_ID |-> ModelId,
     SM_NUM_GPUS |-> "1",
     MAX_INPUT_LENGTH |-> "2048",
     MAX_TOTAL_TOKENS |-> "4096",
     MAX_BATCH_TOTAL_TOKENS |-> "8192",
     MESSAGES_API_ENABLED |-> "true",
     HUGGING_FACE_HUB_TOKEN |-> ""]

InvokeBody(inputs, adapters) ==
    JDict(<< <<"inputs", StrList(inputs)>>, <<"adapters", StrList(adapters)>> >>)

\* the wait cell of the two boto3 notebooks
PollingLoop ==
    << [op |-> "describe_endpoint", loop |-> FALSE],
       [op |-> "while"],
       [op |-> "sleep"],
       [op |-> "describe_endpoint", loop |-> TRUE] >>

ProgramDjl ==
    << [op |-> "snapshot_download", repo_id |-> "tloen/alpaca-lora-7b",
        adapter |-> "eng_alpaca"],
       [op |-> "snapshot_download", repo_id |-> "22h/cabrita-lora-v0-1",
        adapter |-> "portuguese_alpaca"],
       [op |-> "tar"],
       [op |-> "default_bucket", var |-> "bucket"],
       [op |-> "default_bucket", var |-> "model_bucket"],
       [op |-> "assign",
        set |-> [s3_code_prefix |-> "hf-large-model-djl/g5-lora-multi-adapter"]],
       [op |-> "get_execution_role", except |-> None],
       [op |-> "upload_data", bucket |-> "bucket"],
       [op |-> "name_from_base", var |-> "model_name_acc",
        base |-> "g5-lora-multi-adapter"],
       [op |-> "name_from_base", var |-> "model_name_acc",
        base |-> "g5-lora-multi-adapter"],
       [op |-> "create_model", name |-> "model_name_acc", envVar |-> None,
        Environment |-> [ENABLE_ADAPTERS_PREVIEW |-> "true"]],
       [op |-> "assign_names", name |-> "model_name_acc"],
       [op |-> "create_endpoint_config", name |-> "model_name_acc",
        InstanceType |-> "ml.g5.2xlarge",
        ContainerStartupHealthCheckTimeoutInSeconds |-> 1800],
       [op |-> "create_endpoint"] >>
    \o PollingLoop \o
    << [op |-> "invoke_endpoint",
        body |-> InvokeBody(
            <<"Tell me about Alpacas",
              "Invente uma desculpa criativa pra dizer que n\\u00e3o preciso ir \\u00e0 festa.",
              "Tell me about AWS">>,
            <<"eng_alpaca", "portuguese_alpaca", "eng_alpaca">>)],
       [op |-> "invoke_endpoint",
        body |-> InvokeBody(
            <<"Tell me about Alpacas", "Invente uma desculpa criativa">>,
            <<"eng_alpaca", "portuguese_alpaca">>)],
       [op |-> "delete_endpoint"],
       [op |-> "delete_endpoint_config"] >>

VllmDeploy ==
    << [op |-> "get_execution_role", except |-> None],
       [op |-> "default_bucket", var |-> "bucket"],
       [op |-> "default_bucket", var |-> "model_bucket"],
       [op |-> "assign",
        set |-> [s3_code_prefix |-> "hf-large-model-djl/multi-lora/Llama-2-7b-fp16/code"]],
       [op |-> "snapshot_download", repo_id |-> "UnderstandLing/llama-2-7b-chat-ru",
        adapter |-> "ru"],
       [op |-> "snapshot_download", repo_id |-> "UnderstandLing/llama-2-7b-chat-es",
        adapter |-> "es"],
       [op |-> "snapshot_download", repo_id |-> "UnderstandLing/llama-2-7b-chat-fr",
        adapter |-> "fr"],
       [op |-> "tar"],
       [op |-> "upload_data", bucket |-> "model_bucket"],
       [op |-> "assign", set |-> [env_generation |-> EnvGeneration, env |-> EnvGeneration]],
       [op |-> "name_from_base", var |-> "model_name", base |-> "lmi-llama2-7b"],
       [op |-> "create_model", name |-> "model_name", envVar |-> "env",
        Environment |-> <<>>],
       [op |-> "assign_names", name |-> "model_name"],
       [op |-> "create_endpoint_config", name |-> "model_name",
        InstanceType |-> "ml.g5.12xlarge",
        ContainerStartupHealthCheckTimeoutInSeconds |-> 500],
       [op |-> "create_endpoint"] >>

\* a request that names an adapter the notebook never downloaded
VllmInferenceGerman ==
    << [op |-> "invoke_endpoint",
        body |-> InvokeBody(
            <<"Piensa en una excusa creativa para decir que no necesito ir a la fiesta.">>,
            <<"de">>)] >>

VllmInference ==
    << [op |-> "invoke_endpoint",
        body |-> InvokeBody(
            <<"Piensa en una excusa creativa para decir que no necesito ir a la fiesta.">>,
            <<"es">>)] >>

VllmCleanup ==
    << [op |-> "delete_endpoint"],
       [op |-> "delete_endpoint_config"],
       [op |-> "delete_model", name |-> "model_name"] >>

\* a run that sends its request before it waits for the endpoint
ProgramVllmInvokeFirst == VllmDeploy \o VllmInference \o PollingLoop \o VllmCleanup

ProgramVllm == VllmDeploy \o PollingLoop \o VllmInference \o VllmCleanup

ProgramFc ==
    << [op |-> "default_bucket", var |-> "sagemaker_session_bucket"],
       [op |-> "get_execution_role", except |-> "ValueError"],
       [op |-> "get_role", RoleName |-> "sagemaker_execution_role"],
       [op |-> "assign",
        set |-> [instance_type |-> "ml.g5.12xlarge", health_check_timeout |-> 900,
                 config |-> HfConfig]],
       [op |-> "HuggingFaceModel"],
       [op |-> "deploy"],
       [op |-> "assign", set |-> [messages |-> ChatMessages, parameters |-> ChatParameters]],
       [op |-> "predict"],
       [op |-> "assign", set |-> [FUNCTION_METADATA |-> FUNCTION_METADATA]],
       [op |-> "assign", set |-> [messages |-> FunctionCallMessages]],
       [op |-> "assign", set |-> [parameters |-> FunctionCallParameters]],
       [op |-> "predict"],
       [op |-> "predictor_delete_model"],
       [op |-> "predictor_delete_endpoint"] >>

Program ==
    CASE nb = "djl"  -> ProgramDjl
      [] nb = "vllm" -> ProgramVllm
      [] nb = "fc"   -> ProgramFc

\* statements that call an SDK and block until it answers
CallOps ==
    {"snapshot_download", "default_bucket", "get_execution_role", "get_role",
     "upload_data", "create_model", "create_endpoint_config", "create_endpoint",
     "describe_endpoint", "invoke_endpoint", "delete_endpoint",
     "delete_endpoint_config", "delete_model", "deploy", "predict",
     "predictor_delete_model", "predictor_delete_endpoint"}

InferenceOps == {"invoke_endpoint", "predict"}
CreateOps == {"create_model", "create_endpoint_config", "create_endpoint", "deploy"}
DeleteOps == {"delete_endpoint", "delete_endpoint_config", "delete_model",
              "predictor_delete_model", "predictor_delete_endpoint"}

Running == ~aborted /\ pc <= Len(Program)
Finished == ~aborted /\ pc > Len(Program)
Stmt == Program[pc]
At(op) == Running /\ Stmt.op = op
Pending(op) == At(op) /\ <<pc, op>> \in inflight

Bind(new) == new @@ py
Has(v) == v \in DOMAIN py

-----------------------------------------------------------------------------
(* The kernel: issuing a call, a call raising, statements without a call *)

\* {} : a dict with no keys
EmptyDict == [k \in {} |-> None]

\* model = None
NoModel == [kind |-> "None", model_id |-> "", serial |-> 0, adapters |-> EmptyDict]

\* tokenizer = None
NoTokenizer == [kind |-> "None", pad_token |-> ""]

Init ==
    /\ nb \in Notebooks
    /\ pc = 1
    /\ py = [v \in {} |-> None]
    /\ inflight = {}
    /\ aborted = FALSE
    /\ local_dirs = {}
    /\ tarball = NoTar
    /\ s3 = {}
    /\ models = {}
    /\ endpoint_configs = {}
    /\ endpoints = {}
    /\ requests = <<>>
    /\ issued = {}
    /\ returned = {}
    /\ raised = {}
    /\ handled = {}
    /\ waited = FALSE
    /\ polls = 0
    /\ sleeps = 0
    /\ firstStatus = None
    /\ sinceDescribe = <<0, 0>>
    /\ gap = <<0, 0>>
    /\ refs = {}
    /\ created = {}
    /\ model = NoModel
    /\ tokenizer = NoTokenizer
    /\ loads = 0
    /\ wraps = 0
    /\ registered = <<>>
    /\ evals = {}
    /\ trace = {}
    /\ ncalls = 0
    /\ called = None

\* the generation parameters sent as an object of their own
RequestParametersNested(stmt) ==
    IF stmt.op = "invoke_endpoint"
    THEN [EndpointName |-> py.endpoint_name,
          Body |-> json_dumps(stmt.body),
          ContentType |-> "application/json"]
    ELSE [EndpointName |-> py.llm.endpoint_name,
          data |-> [messages |-> py.messages, parameters |-> py.parameters]]

\* the payload an inference statement sends
Request(stmt) ==
    IF stmt.op = "invoke_endpoint"
    THEN [EndpointName |-> py.endpoint_name,
          Body |-> json_dumps(stmt.body),
          ContentType |-> "application/json"]
    ELSE [EndpointName |-> py.llm.endpoint_name,
          data |-> py.parameters @@ ("messages" :> py.messages)]

\* the resources a call creates, as <<kind, name>>
Creates(stmt) ==
    CASE stmt.op = "create_model" -> {<<"model", py[stmt.name]>>}
      [] stmt.op = "create_endpoint_config" -> {<<"config", py.endpoint_config_name>>}
      [] stmt.op = "create_endpoint" -> {<<"endpoint", py.endpoint_name>>}
      [] OTHER -> {}

\* the existing resources a call names, as <<kind, name>>
Refs(stmt) ==
    CASE stmt.op = "create_endpoint_config" -> {<<"model", py[stmt.name]>>}
      [] stmt.op = "create_endpoint" -> {<<"config", py.endpoint_config_name>>}
      [] stmt.op \in {"describe_endpoint", "invoke_endpoint", "delete_endpoint"} ->
            {<<"endpoint", py.endpoint_name>>}
      [] stmt.op = "delete_endpoint_config" -> {<<"config", py.endpoint_config_name>>}
      [] stmt.op = "delete_model" -> {<<"model", py[stmt.name]>>}
      [] OTHER -> {}

\* a call the kernel does not wait for stays outstanding
CompleteNotAwaited(calls, c) == calls

\* a call that has returned is no longer outstanding
Complete(calls, c) == calls \ {c}

\* the statement after a call that returned normally
Advance ==
    /\ pc' = pc + 1
    /\ inflight' = Complete(inflight, <<pc, Stmt.op>>)
    /\ returned' = returned \cup {Stmt.op}
    /\ created' = created \cup Creates(Stmt)
    /\ UNCHANGED <<server, refs, nb, aborted, issued, raised, handled, requests>>

Call ==
    /\ Running
    /\ Stmt.op \in CallOps
    /\ <<pc, Stmt.op>> \notin inflight
    /\ inflight' = inflight \cup {<<pc, Stmt.op>>}
    /\ issued' = issued \cup {Stmt.op}
    /\ requests' = IF Stmt.op \in InferenceOps
                   THEN Append(requests, Request(Stmt)) ELSE requests
    /\ IF Stmt.op = "describe_endpoint"
       THEN /\ polls' = Inc(polls)
            /\ gap' = sinceDescribe
            /\ sinceDescribe' = <<0, 0>>
       ELSE UNCHANGED <<polls, gap, sinceDescribe>>
    /\ refs' = refs \cup {<<Stmt.op, r[1], r[2]>> : r \in Refs(Stmt)}
    /\ UNCHANGED <<server, created, nb, pc, py, aborted, files, cloud, returned,
                   raised, handled, waited, sleeps, firstStatus>>

\* a bare except around every role lookup
CatchesAnything(stmt, e) == stmt.op = "get_execution_role"

\* the except clause, if any, that catches exception e of statement stmt
Catches(stmt, e) == stmt.op = "get_execution_role" /\ stmt.except = e

Raise(e) ==
    /\ Running
    /\ <<pc, Stmt.op>> \in inflight
    /\ inflight' = inflight \ {<<pc, Stmt.op>>}
    /\ raised' = raised \cup {<<Stmt.op, e>>}
    /\ IF Catches(Stmt, e)
       THEN /\ handled' = handled \cup {<<Stmt.op, e>>}
            /\ pc' = pc + 1
            /\ UNCHANGED aborted
       ELSE /\ aborted' = TRUE
            /\ UNCHANGED <<handled, pc>>
    /\ UNCHANGED <<server, refs, created>>
    /\ UNCHANGED <<nb, py, files, cloud, requests, issued, returned, waited, pollHist>>

Local ==
    /\ pc' = pc + 1
    /\ UNCHANGED <<server, refs, created>>
    /\ UNCHANGED <<nb, inflight, aborted, cloud, requests, issued, returned, raised,
                   handled>>

assign ==
    /\ At("assign")
    /\ py' = Bind(Stmt.set)
    /\ Local
    /\ UNCHANGED <<files, waited, pollHist>>

AssignModelName ==
    /\ At("name_from_base")
    /\ \E ts \in Timestamps : py' = Bind(Stmt.var :> name_from_base(Stmt.base, ts))
    /\ Local
    /\ UNCHANGED <<files, waited, pollHist>>

\* both names built with the "-config" suffix
EndpointNamesSameSuffix(model_name) ==
    [endpoint_config_name |-> model_name \o "-config",
     endpoint_name |-> model_name \o "-config"]

\* endpoint_config_name = f"{model_name}-config"; endpoint_name = f"{model_name}-endpoint"
EndpointNames(model_name) ==
    [endpoint_config_name |-> model_name \o "-config",
     endpoint_name |-> model_name \o "-endpoint"]

AssignEndpointNames ==
    /\ At("assign_names")
    /\ py' = Bind(EndpointNames(py[Stmt.name]))
    /\ Local
    /\ UNCHANGED <<files, waited, pollHist>>

tar ==
    /\ At("tar")
    /\ tarball' = local_dirs
    /\ Local
    /\ UNCHANGED <<py, local_dirs, waited, pollHist>>

HuggingFaceModel ==
    /\ At("HuggingFaceModel")
    /\ py' = Bind([llm_model |-> [role |-> py.role, env |-> py.config, model_data |-> None]])
    /\ Local
    /\ UNCHANGED <<files, waited, pollHist>>

-----------------------------------------------------------------------------
(* Responses of the SDK calls *)

snapshot_download ==
    /\ Pending("snapshot_download")
    /\ local_dirs' = local_dirs \cup {Stmt.adapter}
    /\ Advance
    /\ UNCHANGED <<py, tarball, cloud, waited, pollHist>>

default_bucket ==
    /\ Pending("default_bucket")
    /\ py' = Bind(Stmt.var :> DefaultBucket)
    /\ Advance
    /\ UNCHANGED <<files, cloud, waited, pollHist>>

\* try: role = get_execution_role()  except ValueError: ...  skips the handler
get_execution_role ==
    /\ Pending("get_execution_role")
    /\ py' = Bind([role |-> "arn:aws:iam::role/execution-role"])
    /\ pc' = IF Stmt.except = None THEN pc + 1 ELSE pc + 2
    /\ inflight' = Complete(inflight, <<pc, Stmt.op>>)
    /\ returned' = returned \cup {Stmt.op}
    /\ UNCHANGED <<server, refs, created>>
    /\ UNCHANGED <<nb, aborted, issued, raised, handled, requests, files, cloud,
                   waited, pollHist>>

get_role ==
    /\ Pending("get_role")
    /\ py' = Bind([role |-> "arn:aws:iam::role/" \o Stmt.RoleName])
    /\ Advance
    /\ UNCHANGED <<files, cloud, waited, pollHist>>

upload_data ==
    /\ Pending("upload_data")
    /\ tarball /= NoTar
    /\ LET uri == S3Uri(py[Stmt.bucket], py.s3_code_prefix, "model.tar.gz")
       IN /\ s3' = s3 \cup {[uri |-> uri, adapters |-> tarball]}
          /\ py' = Bind([s3_code_artifact_accelerate |-> uri])
    /\ Advance
    /\ UNCHANGED <<files, models, endpoint_configs, endpoints, waited, pollHist>>

\* the prefix the artifact was uploaded under, not the URI upload_data returned
ModelDataUrlPrefix == "s3://" \o py.model_bucket \o "/" \o py.s3_code_prefix

\* the ModelDataUrl create_model is given
ModelDataUrl == py.s3_code_artifact_accelerate

create_model ==
    /\ Pending("create_model")
    /\ models' = models \cup
         {[ModelName |-> py[Stmt.name],
           ModelDataUrl |-> ModelDataUrl,
           Environment |-> IF Stmt.envVar = None THEN Stmt.Environment
                           ELSE py[Stmt.envVar]]}
    /\ py' = Bind([model_arn |-> "arn:aws:sagemaker:model/" \o py[Stmt.name]])
    /\ Advance
    /\ UNCHANGED <<files, s3, endpoint_configs, endpoints, waited, pollHist>>

create_endpoint_config ==
    /\ Pending("create_endpoint_config")
    /\ endpoint_configs' = endpoint_configs \cup
         {[EndpointConfigName |-> py.endpoint_config_name,
           ModelName |-> py[Stmt.name],
           InstanceType |-> Stmt.InstanceType,
           ContainerStartupHealthCheckTimeoutInSeconds |->
               Stmt.ContainerStartupHealthCheckTimeoutInSeconds]}
    /\ Advance
    /\ UNCHANGED <<py, files, s3, models, endpoints, waited, pollHist>>

create_endpoint ==
    /\ Pending("create_endpoint")
    /\ endpoints' = endpoints \cup
         {[EndpointName |-> py.endpoint_name,
           EndpointConfigName |-> py.endpoint_config_name,
           EndpointStatus |-> "Creating"]}
    /\ Advance
    /\ UNCHANGED <<py, files, s3, models, endpoint_configs, waited, pollHist>>

\* the service finishes bringing the endpoint up, one way or the other
ServiceSettle ==
    /\ \E e \in endpoints :
         /\ e.EndpointStatus = "Creating"
         /\ \E st \in {"InService", "Failed"} :
              endpoints' = (endpoints \ {e}) \cup {[e EXCEPT !.EndpointStatus = st]}
    /\ UNCHANGED <<server, refs, created>>
    /\ UNCHANGED <<nb, pc, py, inflight, aborted, files, s3, models, endpoint_configs,
                   requests, issued, returned, raised, handled, waited, pollHist>>

\* resp = describe_endpoint(...); status = resp["EndpointStatus"]
describe_endpoint ==
    /\ Pending("describe_endpoint")
    /\ \E e \in endpoints :
         /\ e.EndpointName = py.endpoint_name
         /\ e.EndpointStatus = "Creating" => polls <= MaxPolls
         /\ py' = Bind([resp |-> e, status |-> e.EndpointStatus])
         /\ firstStatus' = IF firstStatus = None THEN e.EndpointStatus ELSE firstStatus
    /\ pc' = IF Stmt.loop THEN pc - 2 ELSE pc + 1
    /\ inflight' = Complete(inflight, <<pc, Stmt.op>>)
    /\ returned' = returned \cup {Stmt.op}
    /\ UNCHANGED <<server, refs, created>>
    /\ UNCHANGED <<nb, aborted, issued, raised, handled, requests, files, cloud,
                   waited, polls, sleeps, sinceDescribe, gap>>

\* polling until the endpoint is ready
LoopWhileNotInService(status) == status /= "InService"

\* while status == "Creating":
LoopCondition(status) == status = "Creating"

while ==
    /\ At("while")
    /\ IF LoopCondition(py.status)
       THEN pc' = pc + 1 /\ UNCHANGED waited
       ELSE pc' = pc + 3 /\ waited' = TRUE
    /\ UNCHANGED <<server, refs, created>>
    /\ UNCHANGED <<nb, py, inflight, aborted, files, cloud, requests, issued, returned,
                   raised, handled, pollHist>>

\* time.sleep(60)
sleep ==
    /\ At("sleep")
    /\ sleeps' = Inc(sleeps)
    /\ sinceDescribe' = <<Inc(sinceDescribe[1]), sinceDescribe[2] + SleepSeconds>>
    /\ Local
    /\ UNCHANGED <<py, files, waited, polls, firstStatus, gap>>

invoke_endpoint ==
    /\ Pending("invoke_endpoint")
    /\ \E e \in endpoints :
         e.EndpointName = py.endpoint_name /\ e.EndpointStatus = "InService"
    /\ py' = Bind([response_model |-> "response"])
    /\ Advance
    /\ UNCHANGED <<files, cloud, waited, pollHist>>

delete_endpoint ==
    /\ Pending("delete_endpoint")
    /\ \E e \in endpoints : e.EndpointName = py.endpoint_name
    /\ endpoints' = {e \in endpoints : e.EndpointName /= py.endpoint_name}
    /\ Advance
    /\ UNCHANGED <<py, files, s3, models, endpoint_configs, waited, pollHist>>

delete_endpoint_config ==
    /\ Pending("delete_endpoint_config")
    /\ \E c \in endpoint_configs : c.EndpointConfigName = py.endpoint_config_name
    /\ endpoint_configs' =
         {c \in endpoint_configs : c.EndpointConfigName /= py.endpoint_config_name}
    /\ Advance
    /\ UNCHANGED <<py, files, s3, models, endpoints, waited, pollHist>>

delete_model ==
    /\ Pending("delete_model")
    /\ \E m \in models : m.ModelName = py[Stmt.name]
    /\ models' = {m \in models : m.ModelName /= py[Stmt.name]}
    /\ Advance
    /\ UNCHANGED <<py, files, s3, endpoint_configs, endpoints, waited, pollHist>>

-----------------------------------------------------------------------------
(* The SageMaker Python SDK calls of the function-calling notebook *)

SdkBaseName == "huggingface-pytorch-tgi-inference"

\* inside llm_model.deploy(...): the SDK creates the model, the endpoint
\* configuration (named like the endpoint) and the endpoint
DeployCreate ==
    /\ Pending("deploy")
    /\ endpoints = {}
    /\ \E tm \in Timestamps, te \in Timestamps :
         LET mn == name_from_base(SdkBaseName, tm)
             en == name_from_base(SdkBaseName, te)
         IN /\ models' = models \cup
                  {[ModelName |-> mn,
                    ModelDataUrl |-> py.llm_model.model_data,
                    Environment |-> py.llm_model.env]}
            /\ endpoint_configs' = endpoint_configs \cup
                  {[EndpointConfigName |-> en,
                    ModelName |-> mn,
                    InstanceType |-> py.instance_type,
                    ContainerStartupHealthCheckTimeoutInSeconds |->
                        py.health_check_timeout]}
            /\ endpoints' = endpoints \cup
                  {[EndpointName |-> en,
                    EndpointConfigName |-> en,
                    EndpointStatus |-> "Creating"]}
    /\ UNCHANGED <<server, refs, created>>
    /\ UNCHANGED <<nb, pc, py, inflight, aborted, files, s3, requests, issued,
                   returned, raised, handled, waited, pollHist>>

\* deploy returns the predictor once the endpoint is InService
deploy ==
    /\ Pending("deploy")
    /\ \E e \in endpoints :
         /\ e.EndpointStatus = "InService"
         /\ py' = Bind([llm |-> [endpoint_name |-> e.EndpointName]])
    /\ waited' = TRUE
    /\ Advance
    /\ UNCHANGED <<files, cloud, pollHist>>

predict ==
    /\ Pending("predict")
    /\ \E e \in endpoints :
         e.EndpointName = py.llm.endpoint_name /\ e.EndpointStatus = "InService"
    /\ py' = Bind([chat |-> "response"])
    /\ Advance
    /\ UNCHANGED <<files, cloud, waited, pollHist>>

\* llm.delete_model(): the models the endpoint's configuration names
predictor_delete_model ==
    /\ Pending("predictor_delete_model")
    /\ \E e \in endpoints : e.EndpointName = py.llm.endpoint_name
    /\ LET named == {c.ModelName : c \in
                       {c \in endpoint_configs :
                          \E e \in endpoints :
                             /\ e.EndpointName = py.llm.endpoint_name
                             /\ c.EndpointConfigName = e.EndpointConfigName}}
       IN models' = {m \in models : m.ModelName \notin named}
    /\ Advance
    /\ UNCHANGED <<py, files, s3, endpoint_configs, endpoints, waited, pollHist>>

\* llm.delete_endpoint(): the endpoint and its configuration
predictor_delete_endpoint ==
    /\ Pending("predictor_delete_endpoint")
    /\ \E e \in endpoints : e.EndpointName = py.llm.endpoint_name
    /\ LET mine == {e \in endpoints : e.EndpointName = py.llm.endpoint_name}
       IN /\ endpoints' = endpoints \ mine
          /\ endpoint_configs' =
               {c \in endpoint_configs :
                  \A e \in mine : c.EndpointConfigName /= e.EndpointConfigName}
    /\ Advance
    /\ UNCHANGED <<py, files, s3, models, waited, pollHist>>

-----------------------------------------------------------------------------
(* lora-multi-adapter/model.py, the entry point the model server of the    *)
(* DJL endpoint runs.  The server calls handle and register_adapter one at *)
(* a time in one Python process; model and tokenizer are that process's    *)
(* globals.  A call is one step.  LlamaForCausalLM.from_pretrained and     *)
(* LlamaTokenizer.from_pretrained are taken to return.                     *)

\* calls on model.py in a run of the server
MaxCalls == 4

\* option.model_id of serving.properties
BaseModelId == "huggyllama/llama-7b"

AdapterNames == {"eng_alpaca", "portuguese_alpaca"}

\* pad tokens a tokenizer may come with ("" is none)
PadTokens == {"", "<unk>"}

\* the Input of a register_adapter call
RegisterInputs ==
    {[name |-> n, src |-> "/opt/ml/model/adapters/" \o n] : n \in AdapterNames}

\* JSON bodies of requests: inputs, and optionally adapters and parameters
JsonInputs ==
    {("inputs" :> <<"Tell me about Alpacas">>) @@ a @@ g :
        a \in {EmptyDict} \cup {"adapters" :> as : as \in
                 {<<>>, <<"eng_alpaca">>, <<"eng_alpaca", "portuguese_alpaca">>}},
        g \in {EmptyDict} \cup {"parameters" :> kw : kw \in
                 {EmptyDict, [max_new_tokens |-> 128], [temperature |-> "0.7"],
                  [adapters |-> <<"eng_alpaca">>]}}}

\* the Input of a handle call: the server's empty first call, or a request
HandleInputs ==
    {[empty |-> TRUE, properties |-> [model_id |-> BaseModelId], json |-> EmptyDict]}
    \cup {[empty |-> FALSE, properties |-> [model_id |-> BaseModelId], json |-> j] :
            j \in JsonInputs}

\* dict.get(key, default)
Get(d, key, default) == IF key \in DOMAIN d THEN d[key] ELSE default

\* a request without adapters served with every adapter registered so far
RegisteredAdapters == registered

\* the [] of json_inputs.get("adapters", [])
NoAdapters == <<>>

\* max_new_tokens=64 in the signature of evaluate
DefaultMaxNewTokens == 64

\* if not model: reloading whenever the global is not a bare base model
NotBaseModel(m) == m.kind /= "LlamaForCausalLM"

\* not model
Not(m) == m.kind = "None"

\* wrapping on every registration
NeverPeftModel(m) == FALSE

\* isinstance(model, PeftModel)
IsPeftModel(m) == m.kind = "PeftModel"

\* load_model(model_id): the (model, tokenizer) pairs it may return
load_model(model_id, serial) ==
    {<<[kind |-> "LlamaForCausalLM", model_id |-> model_id, serial |-> serial,
        adapters |-> EmptyDict],
       [kind |-> "LlamaTokenizer", pad_token |-> IF p = "" THEN "[PAD]" ELSE p]>> :
       p \in PadTokens}

\* the keyword arguments evaluate cannot take twice
Positional == {"instruction", "adapters"}

\* evaluate(instruction, adapters, **generation_kwargs): the parameters bound,
\* and from them the arguments model.generate is given
evaluate(instruction, adapters, generation_kwargs) ==
    LET max_new_tokens == Get(generation_kwargs, "max_new_tokens", DefaultMaxNewTokens)
    IN [instruction |-> instruction,
        adapters |-> adapters,
        input |-> Get(generation_kwargs, "input", None),
        max_new_tokens |-> max_new_tokens,
        kwargs |-> [k \in DOMAIN generation_kwargs \ {"input", "max_new_tokens"} |->
                      generation_kwargs[k]],
        generate |-> [adapters |-> adapters, max_new_tokens |-> max_new_tokens]]

handle(inputs) ==
    /\ ncalls < MaxCalls
    /\ ncalls' = ncalls + 1
    /\ called' = "handle"
    /\ \E loaded \in (IF Not(model)
                       THEN load_model(inputs.properties.model_id, loads + 1)
                       ELSE {<<model, tokenizer>>}) :
         /\ model' = loaded[1]
         /\ tokenizer' = loaded[2]
    /\ loads' = IF Not(model) THEN loads + 1 ELSE loads
    /\ IF inputs.empty
       THEN /\ trace' = trace \cup {<<"handle", "None">>}
            /\ evals' = {}
       ELSE LET json_inputs == inputs.json
                sentence == Get(json_inputs, "inputs", None)
                adapters == Get(json_inputs, "adapters", NoAdapters)
                generation_kwargs == Get(json_inputs, "parameters", EmptyDict)
            IN IF DOMAIN generation_kwargs \cap Positional /= {}
               THEN /\ trace' = trace \cup {<<"handle", "TypeError">>}
                    /\ evals' = {}
               ELSE /\ evals' =
                          {[request |-> json_inputs,
                            call |-> evaluate(sentence, adapters, generation_kwargs)]}
                    /\ \E outcome \in {"Output", "raised"} :
                          trace' = trace \cup {<<"handle", outcome>>}
    /\ UNCHANGED <<wraps, registered>>
    /\ UNCHANGED notebook

register_adapter(inputs) ==
    /\ ncalls < MaxCalls
    /\ ncalls' = ncalls + 1
    /\ called' = "register_adapter"
    /\ LET adapter_name == inputs.name
           adapter_model_id_or_path == inputs.src
       IN IF IsPeftModel(model)
          THEN /\ model' = [model EXCEPT !.adapters =
                              (adapter_name :> adapter_model_id_or_path) @@ @]
               /\ registered' = Append(registered, adapter_name)
               /\ trace' = trace \cup {<<"register_adapter", "None">>}
               /\ UNCHANGED wraps
          ELSE IF model = NoModel
          THEN /\ trace' = trace \cup {<<"register_adapter", "AttributeError">>}
               /\ UNCHANGED <<model, registered, wraps>>
          ELSE /\ model' = [kind |-> "PeftModel", model_id |-> model.model_id,
                            serial |-> model.serial,
                            adapters |-> (adapter_name :> adapter_model_id_or_path)]
               /\ registered' = Append(registered, adapter_name)
               /\ wraps' = wraps + 1
               /\ trace' = trace \cup {<<"register_adapter", "None">>}
    /\ UNCHANGED <<tokenizer, loads, evals>>
    /\ UNCHANGED notebook

-----------------------------------------------------------------------------
(* Specifications *)

Next ==
    \/ Call
    \/ \E e \in ExceptionTypes : Raise(e)
    \/ assign
    \/ AssignModelName
    \/ AssignEndpointNames
    \/ tar
    \/ HuggingFaceModel
    \/ snapshot_download
    \/ default_bucket
    \/ get_execution_role
    \/ get_role
    \/ upload_data
    \/ create_model
    \/ create_endpoint_config
    \/ create_endpoint
    \/ ServiceSettle
    \/ describe_endpoint
    \/ while
    \/ sleep
    \/ invoke_endpoint
    \/ delete_endpoint
    \/ delete_endpoint_config
    \/ delete_model
    \/ DeployCreate
    \/ deploy
    \/ predict
    \/ predictor_delete_model
    \/ predictor_delete_endpoint

Spec == Init /\ [][Next]_vars

\* what the kernel does when no call raises
Progress ==
    \/ Call
    \/ assign \/ AssignModelName \/ AssignEndpointNames \/ tar \/ HuggingFaceModel
    \/ snapshot_download \/ default_bucket \/ get_execution_role \/ get_role
    \/ upload_data \/ create_model \/ create_endpoint_config \/ create_endpoint
    \/ describe_endpoint \/ while \/ sleep \/ invoke_endpoint
    \/ delete_endpoint \/ delete_endpoint_config \/ delete_model
    \/ DeployCreate \/ deploy \/ predict
    \/ predictor_delete_model \/ predictor_delete_endpoint

\* the kernel runs the next statement, and the service eventually settles
LiveSpec == Spec /\ WF_vars(Progress) /\ WF_vars(ServiceSettle)

\* any sequence of calls on model.py
HandlerNext ==
    \/ \E inputs \in HandleInputs : handle(inputs)
    \/ \E inputs \in RegisterInputs : register_adapter(inputs)

\* the server of the DJL notebook's endpoint, before its first call
HandlerInit == Init /\ nb = "djl"

HandlerSpec == HandlerInit /\ [][HandlerNext]_vars

TypeOK ==
    /\ nb \in Notebooks
    /\ pc \in 1..(Len(Program) + 1)
    /\ aborted \in BOOLEAN
    /\ waited \in BOOLEAN
    /\ polls \in 0..CounterCap
    /\ sleeps \in 0..CounterCap

-----------------------------------------------------------------------------
(* Properties *)

Boto3 == nb \in {"djl", "vllm"}

EndpointCreated ==
    IF nb = "fc" THEN "deploy" \in issued ELSE "create_endpoint" \in returned

\* C1: every inference request is sent after the endpoint creation call and
\* after the wait step has finished, and once a delete call has been made no
\* further inference request is sent.
C1_StepOrder ==
    /\ [](requests /= <<>> => EndpointCreated /\ waited)
    /\ [][issued \cap DeleteOps /= {} => requests' = requests]_vars

C1_Witness ==
    /\ Finished
    /\ requests /= <<>>
    /\ issued \cap DeleteOps /= {}
    /\ polls >= 2

\* C2: every invoke_endpoint call is made when the last status the polling
\* loop observed is InService.
C2_InvokeOnlyInService ==
    "invoke_endpoint" \in issued => py.status = "InService"

\* C3: after the cleanup step has run, no model, endpoint configuration or
\* endpoint the notebook created remains.
C3_AllDeleted ==
    Finished => models = {} /\ endpoint_configs = {} /\ endpoints = {}

\* C4 as stated: whenever an SDK call raises, the run aborts and no fallback
\* call is made.
C4_NoHandler ==
    raised /= {} => aborted /\ handled = {} /\ "get_role" \notin issued

\* C4 amended: the only exception caught is a ValueError of get_execution_role
\* in the function-calling notebook, whose handler calls iam.get_role; every
\* other exception aborts the run at the statement that raised it.
C4_OnlyRoleLookupHandled ==
    /\ handled \subseteq {<<"get_execution_role", "ValueError">>}
    /\ handled /= {} => nb = "fc"
    /\ "get_role" \in issued => handled /= {}
    /\ raised \ handled /= {} => aborted
    /\ aborted => /\ pc <= Len(Program)
                  /\ \E e \in ExceptionTypes : <<Program[pc].op, e>> \in raised \ handled

C4_Witness ==
    /\ "get_role" \in returned
    /\ handled /= {}
    /\ aborted

\* C5: the loop body runs only while the last observed status is "Creating"
\* and the loop is left only with another status; between two consecutive
\* describe_endpoint calls lies exactly one sleep, of 60 seconds; and when the
\* first status observed is not "Creating" no sleep happens.
C5_PollingLoop ==
    /\ (At("sleep") \/ (At("describe_endpoint") /\ Stmt.loop)) => py.status = "Creating"
    /\ (Boto3 /\ waited) => py.status /= "Creating"
    /\ polls >= 2 => gap = <<1, 60>>
    /\ firstStatus \notin {None, "Creating"} => sleeps = 0

C5_Witness ==
    /\ Boto3
    /\ waited
    /\ polls = MaxPolls + 1
    /\ sleeps = MaxPolls
    /\ firstStatus = "Creating"

AtInference == At("invoke_endpoint") \/ "invoke_endpoint" \in issued

Reported == Boto3 /\ ~aborted /\ Has("status") /\ py.status /= "Creating"

InWait == Boto3 /\ ~aborted /\ "create_endpoint" \in returned /\ ~waited

\* C6: once the endpoint has reported a status other than "Creating" the run
\* reaches the inference step; and, the service eventually leaving Creating,
\* every wait ends at the inference step unless a call raises.
C6_PollingTerminates ==
    /\ Reported ~> AtInference
    /\ InWait ~> (AtInference \/ aborted)

C6_Witness ==
    /\ Boto3
    /\ At("invoke_endpoint")
    /\ polls > 2
    /\ py.status = "Failed"

\* C7: at most one SDK call is outstanding, and it is the call of the
\* statement the kernel is at: the next statement starts only after it returned.
C7_OneCallOutstanding ==
    /\ Cardinality(inflight) <= 1
    /\ inflight /= {} => pc <= Len(Program) /\ inflight = {<<pc, Program[pc].op>>}

C7_Witness ==
    /\ Pending("describe_endpoint")
    /\ Stmt.loop
    /\ \E e \in endpoints : e.EndpointStatus = "Creating"

\* C8 as stated: in every notebook the model is created after an upload and
\* from the uploaded artifact.
C8_UploadBeforeModel ==
    \A m \in models :
        /\ "upload_data" \in returned
        /\ \E o \in s3 : o.uri = m.ModelDataUrl

\* C8 amended: in the two boto3 notebooks create_model is called after
\* upload_data returned and its ModelDataUrl is the URI upload_data returned
\* for model.tar.gz; the function-calling notebook uploads nothing and
\* creates its model without model data.
C8_Boto3UploadBeforeModel ==
    /\ Boto3 =>
         /\ "create_model" \in issued => "upload_data" \in returned
         /\ \A m \in models :
              /\ m.ModelDataUrl = py.s3_code_artifact_accelerate
              /\ \E o \in s3 : o.uri = m.ModelDataUrl
              /\ m.ModelDataUrl =
                   S3Uri(DefaultBucket, py.s3_code_prefix, "model.tar.gz")
    /\ nb = "fc" => s3 = {} /\ \A m \in models : m.ModelDataUrl = None

C8_Witness ==
    /\ Boto3
    /\ models /= {}
    /\ "create_model" \in returned

Messages(r) == {r.data.messages[j] : j \in DOMAIN r.data.messages}

FcRequests == IF nb = "fc" THEN {requests[i] : i \in DOMAIN requests} ELSE {}

\* C9: every message of every chat request of the function-calling notebook
\* has the role system, assistant or user.
C9_RolesAllowed ==
    \A r \in FcRequests : \A m \in Messages(r) :
        m.role \in {"system", "assistant", "user"}

\* C10: the content of the function_metadata message of the function-calling
\* request is the serialized FUNCTION_METADATA value.
C10_MetadataSerialized ==
    \A r \in FcRequests : \A m \in Messages(r) :
        m.role = "function_metadata" => m.content = json_dumps(py.FUNCTION_METADATA)

-----------------------------------------------------------------------------
(* Adapters and model environment of the LoRA notebooks *)

\* the adapter names in the "adapters" list of a request body
AdaptersOf(body) ==
    UNION {{kv[2].v[i].v : i \in DOMAIN kv[2].v} :
             kv \in {body.v[k] : k \in {k \in DOMAIN body.v : body.v[k][1] = "adapters"}}}

\* the bodies the notebook's inference statements serialize
InvokeBodies ==
    {Program[k].body : k \in {k \in DOMAIN Program : Program[k].op = "invoke_endpoint"}}

\* the adapter directories the notebook's cells download
Downloaded ==
    IF nb = "djl" THEN {"eng_alpaca", "portuguese_alpaca"} ELSE {"ru", "es", "fr"}

\* C11: every adapter an inference request of a LoRA notebook names is an
\* adapter directory the notebook downloaded before it packed model.tar.gz
\* (eng_alpaca and portuguese_alpaca in the DJL notebook; ru, es and fr in
\* the vLLM notebook), and so is in the archive the model was created from.
C11_AdaptersDownloaded ==
    Boto3 =>
      /\ tarball /= NoTar => tarball = Downloaded
      /\ \A i \in DOMAIN requests :
           /\ tarball /= NoTar
           /\ \E body \in InvokeBodies :
                /\ requests[i].Body = json_dumps(body)
                /\ AdaptersOf(body) /= {}
                /\ AdaptersOf(body) \subseteq tarball
                /\ AdaptersOf(body) \subseteq local_dirs
                /\ \A m \in models : \E o \in s3 :
                     o.uri = m.ModelDataUrl /\ AdaptersOf(body) \subseteq o.adapters

C11_Witness ==
    /\ nb = "djl"
    /\ Len(requests) = 2
    /\ requests[2].Body = json_dumps(InvokeBody(
          <<"Tell me about Alpacas", "Invente uma desculpa criativa">>,
          <<"eng_alpaca", "portuguese_alpaca">>))

\* C12: the model of the Llama2/vLLM notebook is created with tensor parallel
\* degree 4, the number of GPUs of the ml.g5.12xlarge instance its endpoint
\* configuration asks for.
C12_TensorParallelDegree ==
    nb = "vllm" =>
      /\ \A m \in models : m.Environment.OPTION_TENSOR_PARALLEL_DEGREE = "4"
      /\ \A c \in endpoint_configs : c.InstanceType = "ml.g5.12xlarge"

-----------------------------------------------------------------------------
(* Requests as model.py evaluates them *)

\* C13: a request handle serves that has no adapters field is evaluated with
\* the empty adapter list, and one that has no parameters field with no
\* extra keyword arguments, no input and max_new_tokens = 64; model.generate
\* is given that adapter list and that max_new_tokens.
C13_RequestDefaults ==
    \A e \in evals :
      /\ "adapters" \notin DOMAIN e.request =>
            e.call.adapters = <<>> /\ e.call.generate.adapters = <<>>
      /\ "parameters" \notin DOMAIN e.request =>
            /\ e.call.kwargs = EmptyDict
            /\ e.call.input = None
            /\ e.call.max_new_tokens = 64
            /\ e.call.generate.max_new_tokens = 64

C13_Witness ==
    /\ registered /= <<>>
    /\ \E e \in evals : DOMAIN e.request = {"inputs"}
    /\ <<"handle", "Output">> \in trace

-----------------------------------------------------------------------------
(* The function-calling notebook's requests and deployment *)

ChatFields == {"messages", "model", "top_p", "temperature", "max_tokens"}

C15_HealthCheckTimeout ==
    nb = "fc" =>
      \A c \in endpoint_configs : c.ContainerStartupHealthCheckTimeoutInSeconds = 600

-----------------------------------------------------------------------------
(* Resource names of the boto3 notebooks *)

\* the names of the resources of a kind created so far
CreatedOf(kind) == {c[2] : c \in {c \in created : c[1] = kind}}

\* the names the calls of an operation were given
NamedBy(op) == {r[3] : r \in {r \in refs : r[1] = op}}

\* C16: in the boto3 notebooks one model, one endpoint configuration and one
\* endpoint are created; the configuration names the model create_model
\* created and is called <model name>-config, the endpoint names that
\* configuration and is called <model name>-endpoint; the polling, invoke and
\* delete calls name exactly these, and every name a call refers to was
\* created by an earlier call.
C16_ReferenceChain ==
    Boto3 =>
      /\ \A r \in refs : <<r[2], r[3]>> \in created
      /\ \A kind \in {"model", "config", "endpoint"} : Cardinality(CreatedOf(kind)) <= 1
      /\ \A m \in CreatedOf("model") :
           /\ CreatedOf("config") \subseteq {m \o "-config"}
           /\ CreatedOf("endpoint") \subseteq {m \o "-endpoint"}
      /\ \A c \in endpoint_configs :
           /\ c.ModelName \in CreatedOf("model")
           /\ c.EndpointConfigName = c.ModelName \o "-config"
      /\ \A e \in endpoints :
           /\ e.EndpointConfigName \in CreatedOf("config")
           /\ e.EndpointName \in CreatedOf("endpoint")
      /\ \A i \in DOMAIN requests : requests[i].EndpointName \in CreatedOf("endpoint")
      /\ \A op \in {"describe_endpoint", "invoke_endpoint", "delete_endpoint"} :
           NamedBy(op) \subseteq CreatedOf("endpoint")
      /\ NamedBy("create_endpoint") \cup NamedBy("delete_endpoint_config")
            \subseteq CreatedOf("config")
      /\ NamedBy("create_endpoint_config") \cup NamedBy("delete_model")
            \subseteq CreatedOf("model")

C16_Witness ==
    /\ nb = "vllm"
    /\ Finished
    /\ NamedBy("describe_endpoint") /= {}
    /\ NamedBy("invoke_endpoint") /= {}
    /\ NamedBy("delete_endpoint") /= {}
    /\ NamedBy("delete_endpoint_config") /= {}
    /\ NamedBy("delete_model") /= {}

-----------------------------------------------------------------------------
(* The globals of model.py over the calls of the model server *)

Range(seq) == {seq[i] : i \in DOMAIN seq}

C18_WrapOnce ==
    /\ [](/\ wraps <= 1
          /\ wraps = 1 <=> registered /= <<>>
          /\ model.kind = "PeftModel" <=> registered /= <<>>
          /\ DOMAIN model.adapters = Range(registered)
          /\ Cardinality(DOMAIN model.adapters) <= Len(registered))
    /\ [][registered' /= registered =>
            \E inputs \in RegisterInputs :
              /\ called' = "register_adapter"
              /\ registered' = Append(registered, inputs.name)
              /\ IF model.kind = "PeftModel"
                 THEN /\ wraps' = wraps
                      /\ model' = [model EXCEPT !.adapters = (inputs.name :> inputs.src) @@ @]
                 ELSE /\ model.kind = "LlamaForCausalLM"
                      /\ wraps' = wraps + 1
                      /\ model' = [model EXCEPT !.kind = "PeftModel",
                                                !.adapters = (inputs.name :> inputs.src)]]_vars

C18_Witness ==
    /\ wraps = 1
    /\ Len(registered) = 3
    /\ DOMAIN model.adapters = AdapterNames

====
